---- MODULE Spec2Model ----
(***************************************************************************)
(* Model of the move-selection engine of the quantum tic-tac-toe server    *)
(* (backend/quantumEngine.js): one call of simulateQuantumMove on a board   *)
(* supplied by the caller.  The engine is a pure function of that board    *)
(* and of the numbers the quantum-circuit library returns for each          *)
(* candidate board.                                                         *)
(* The library is not part of the repository: its output for a candidate   *)
(* cell is an input of the model, drawn from the outcomes the documented    *)
(* ranges allow (entropy in [0,4], purity in [0,1], probabilities in        *)
(* [0,1], three dominant basis states out of 16).                           *)
(*                                                                          *)
(* Cells are numbered 0..8 as in the source.  Scores are in the source's   *)
(* units; the feature outcomes are chosen so that every score is a whole    *)
(* number (purity and probability are kept in percent).                     *)
(***************************************************************************)
EXTENDS Integers, Sequences, FiniteSets

\* The engine: the board of the call, the library's outcome per candidate
\* cell, the position of the call and its result.
VARIABLES boardState, circuitOut, pc, result

\* The client (frontend/script.js): its three globals, the invocations of
\* makeMove that await their fetch, and the number of setTimeout callbacks
\* (alert, then resetGame) not yet run.
VARIABLES gameBoard, moveCount, isProcessing, pending, timers

\* History: the number of clicks makeMove has accepted in the session.
VARIABLE clicks

engineVars == <<boardState, circuitOut, pc, result>>
clientVars == <<gameBoard, moveCount, isProcessing, pending, timers, clicks>>
vars == <<engineVars, clientVars>>

----------------------------------------------------------------------------
(* Bounds of the model.                                                     *)

\* At most this many candidate cells get the high feature outcome from the
\* library in one request; all other cells get the low outcome.
MaxHighCells == 1

\* At most this many invocations of makeMove await their fetch at once.
MaxPending == 2

\* At most this many reset timers are pending at once.
MaxTimers == 2

\* A session is followed for at most this many accepted clicks.
MaxClicks == 7

----------------------------------------------------------------------------
(* Board values.                                                            *)

Null == "null"
Cells == 0..8
Marks == {"X", "O"}
Boards == [Cells -> Marks \cup {Null}]

\* [...board] with board[cellIndex] = symbol: the hypothetical placement made
\* on a copy.
testBoardOf(board, cellIndex, symbol) == [board EXCEPT ![cellIndex] = symbol]

\* Variant: the second diagonal mistyped.
winPatternsTypo ==
    << <<0, 1, 2>>, <<3, 4, 5>>, <<6, 7, 8>>,
       <<0, 3, 6>>, <<1, 4, 7>>, <<2, 5, 8>>,
       <<0, 4, 8>>, <<2, 4, 5>> >>

winPatterns ==
    << <<0, 1, 2>>, <<3, 4, 5>>, <<6, 7, 8>>,
       <<0, 3, 6>>, <<1, 4, 7>>, <<2, 5, 8>>,
       <<0, 4, 8>>, <<2, 4, 6>> >>

----------------------------------------------------------------------------
(* Classical strategy helpers.                                              *)

\* Variant: the line test compares with 'O' instead of the symbol passed in.
isWinningMoveForO(board, cellIndex, symbol) ==
    IF board[cellIndex] # Null THEN FALSE
    ELSE LET testBoard == testBoardOf(board, cellIndex, symbol)
         IN  \E i \in 1..Len(winPatterns) :
                /\ testBoard[winPatterns[i][1]] = "O"
                /\ testBoard[winPatterns[i][2]] = "O"
                /\ testBoard[winPatterns[i][3]] = "O"

isWinningMove(board, cellIndex, symbol) ==
    IF board[cellIndex] # Null THEN FALSE
    ELSE LET testBoard == testBoardOf(board, cellIndex, symbol)
         IN  \E i \in 1..Len(winPatterns) :
                /\ testBoard[winPatterns[i][1]] = symbol
                /\ testBoard[winPatterns[i][2]] = symbol
                /\ testBoard[winPatterns[i][3]] = symbol

\* The cells pushed by the loop i = 0..8, in ascending order.
findAllWinningMoves(board, symbol) ==
    {i \in Cells : isWinningMove(board, i, symbol)}

\* Number of patterns with exactly two cells of symbol and one empty cell
\* after the (unchecked) placement of symbol at cellIndex.
threatsAfter(board, cellIndex, symbol) ==
    LET testBoard == testBoardOf(board, cellIndex, symbol)
        ourCount(p) == Cardinality({k \in 1..3 : testBoard[p[k]] = symbol})
        emptyCount(p) == Cardinality({k \in 1..3 : testBoard[p[k]] = Null})
    IN  Cardinality({i \in 1..Len(winPatterns) :
                        /\ ourCount(winPatterns[i]) = 2
                        /\ emptyCount(winPatterns[i]) = 1})

\* Variant: one threat already counts as a fork.
createsForkOneThreat(board, cellIndex, symbol) ==
    threatsAfter(board, cellIndex, symbol) >= 1

createsFork(board, cellIndex, symbol) ==
    threatsAfter(board, cellIndex, symbol) >= 2

----------------------------------------------------------------------------
(* Quantum feature extraction.                                              *)
(* encodeBoard builds a 4-qubit circuit from the candidate board and the    *)
(* library runs it; circuitOut[cellIndex] is what the library returned for  *)
(* the board with O placed at cellIndex.  Two outcomes span the documented  *)
(* ranges: "low" (entropy 4, purity 0, top probability 0, the cell not     *)
(* among the dominant states) and "high" (entropy 0, purity 1, top         *)
(* probability 1, the cell the most probable state).                        *)

Outcomes == {"low", "high"}

\* The object extractQuantumFeatures returns: entropy, purity (percent) and
\* the three most probable states, most probable first (prob in percent).
extractQuantumFeatures(cellIndex) ==
    IF circuitOut[cellIndex] = "high"
    THEN [entropy |-> 0, purity |-> 100,
          dominantStates |-> << [state |-> cellIndex, prob |-> 100],
                                [state |-> cellIndex + 1, prob |-> 0],
                                [state |-> cellIndex + 2, prob |-> 0] >>]
    ELSE [entropy |-> 4, purity |-> 0,
          dominantStates |-> << [state |-> cellIndex + 1, prob |-> 0],
                                [state |-> cellIndex + 2, prob |-> 0],
                                [state |-> cellIndex + 3, prob |-> 0] >>]

----------------------------------------------------------------------------
(* Move scoring.                                                            *)

NegInfinity == -1000000000

\* Variant: a digit dropped from the win score.
WinScoreTypo == 10 * 1000

WinScore == 100000
BlockScore == 90000
ForkBonus == 5000
BlockForkBonus == 4000
\* Variant: a digit dropped from the center bonus.
CenterBonusTypo == 3 * 100

CenterBonus == 3000
OppositeCornerBonus == 2500
CornerBonus == 2000
\* Variant: two digits added to the dominant-state bonus.
DominantBonusTypo == 30 * 100

DominantBonus == 30
\* Variant: a digit added to the edge bonus.
EdgeBonusTypo == 5 * 1000

EdgeBonus == 500

cornerPairs == << <<0, 8>>, <<2, 6>> >>

\* Variant: the tests of the loop over corners without cellIndex === c2 and
\* cellIndex === c1.
oppositeCornerHitsAnyCell(board, cellIndex) ==
    Cardinality({i \in 1..Len(cornerPairs) :
                    /\ board[cornerPairs[i][1]] = "X"
                    /\ board[cornerPairs[i][2]] = Null})
    + Cardinality({i \in 1..Len(cornerPairs) :
                    /\ board[cornerPairs[i][2]] = "X"
                    /\ board[cornerPairs[i][1]] = Null})

\* How many of the four tests of the loop over corners fire for cellIndex.
oppositeCornerHits(board, cellIndex) ==
    Cardinality({i \in 1..Len(cornerPairs) :
                    /\ board[cornerPairs[i][1]] = "X"
                    /\ board[cornerPairs[i][2]] = Null
                    /\ cellIndex = cornerPairs[i][2]})
    + Cardinality({i \in 1..Len(cornerPairs) :
                    /\ board[cornerPairs[i][2]] = "X"
                    /\ board[cornerPairs[i][1]] = Null
                    /\ cellIndex = cornerPairs[i][1]})

\* score += (4 - entropy) * 10; score += purity * 50; +30 when the cell is
\* among the dominant states (state % 9); score += dominantStates[0].prob * 20.
featureScore(features, cellIndex) ==
    (4 - features.entropy) * 10
    + (features.purity * 50) \div 100
    + (IF \E k \in 1..Len(features.dominantStates) :
             features.dominantStates[k].state % 9 = cellIndex
       THEN DominantBonus ELSE 0)
    + (features.dominantStates[1].prob * 20) \div 100

\* The strategy tag after the fork, block-fork, center and opposite-corner
\* tests (each assigns unconditionally) and the corner and edge tests (each
\* assigns only while the tag is still 'quantum').
strategyTag(board, cellIndex) ==
    LET s0 == "quantum"
        s1 == IF createsFork(board, cellIndex, "O") THEN "fork" ELSE s0
        s2 == IF createsFork(board, cellIndex, "X") THEN "block_fork" ELSE s1
        s3 == IF cellIndex = 4 /\ board[4] = Null THEN "center" ELSE s2
        s4 == IF oppositeCornerHits(board, cellIndex) > 0
              THEN "opposite_corner" ELSE s3
        s5 == IF cellIndex \in {0, 2, 6, 8} /\ s4 = "quantum"
              THEN "corner" ELSE s4
        s6 == IF cellIndex \in {1, 3, 5, 7} /\ s5 = "quantum"
              THEN "edge" ELSE s5
    IN  s6

\* The score of a cell that is neither an immediate win nor a block.
ladderScore(board, cellIndex, features) ==
    (IF createsFork(board, cellIndex, "O") THEN ForkBonus ELSE 0)
    + (IF createsFork(board, cellIndex, "X") THEN BlockForkBonus ELSE 0)
    + (IF cellIndex = 4 /\ board[4] = Null THEN CenterBonus ELSE 0)
    + oppositeCornerHits(board, cellIndex) * OppositeCornerBonus
    + (IF cellIndex \in {0, 2, 6, 8} THEN CornerBonus ELSE 0)
    + featureScore(features, cellIndex)
    + (IF cellIndex \in {1, 3, 5, 7} THEN EdgeBonus ELSE 0)

\* Variant: scoreMove without the test for an occupied cell.
scoreMoveUnchecked(board, cellIndex) ==
    LET features == extractQuantumFeatures(cellIndex)
        shown == [entropy |-> features.entropy, purity |-> features.purity]
    IN  IF isWinningMove(board, cellIndex, "O")
        THEN [score |-> WinScore, features |-> shown,
              strategy |-> "WINNING MOVE!"]
        ELSE IF isWinningMove(board, cellIndex, "X")
        THEN [score |-> BlockScore, features |-> shown,
              strategy |-> "BLOCK WIN!"]
        ELSE [score |-> ladderScore(board, cellIndex, features),
              features |-> shown,
              strategy |-> strategyTag(board, cellIndex)]

\* Variant: the win and block branches do not return; the ladder and the
\* feature terms are added on top of the win and block scores.
scoreMoveNotTerminal(board, cellIndex) ==
    IF board[cellIndex] # Null
    THEN [score |-> NegInfinity, features |-> Null, strategy |-> "invalid"]
    ELSE LET features == extractQuantumFeatures(cellIndex)
             shown == [entropy |-> features.entropy, purity |-> features.purity]
         IN  IF isWinningMove(board, cellIndex, "O")
             THEN [score |-> WinScore + ladderScore(board, cellIndex, features),
                   features |-> shown, strategy |-> "WINNING MOVE!"]
             ELSE IF isWinningMove(board, cellIndex, "X")
             THEN [score |-> BlockScore + ladderScore(board, cellIndex, features),
                   features |-> shown, strategy |-> "BLOCK WIN!"]
             ELSE [score |-> ladderScore(board, cellIndex, features),
                   features |-> shown,
                   strategy |-> strategyTag(board, cellIndex)]

\* Variant: the block test placed before the win test.
scoreMoveBlockFirst(board, cellIndex) ==
    IF board[cellIndex] # Null
    THEN [score |-> NegInfinity, features |-> Null, strategy |-> "invalid"]
    ELSE LET features == extractQuantumFeatures(cellIndex)
             shown == [entropy |-> features.entropy, purity |-> features.purity]
         IN  IF isWinningMove(board, cellIndex, "X")
             THEN [score |-> BlockScore, features |-> shown,
                   strategy |-> "BLOCK WIN!"]
             ELSE IF isWinningMove(board, cellIndex, "O")
             THEN [score |-> WinScore, features |-> shown,
                   strategy |-> "WINNING MOVE!"]
             ELSE [score |-> ladderScore(board, cellIndex, features),
                   features |-> shown,
                   strategy |-> strategyTag(board, cellIndex)]

scoreMove(board, cellIndex) ==
    IF board[cellIndex] # Null
    THEN [score |-> NegInfinity, features |-> Null, strategy |-> "invalid"]
    ELSE LET features == extractQuantumFeatures(cellIndex)
             shown == [entropy |-> features.entropy, purity |-> features.purity]
         IN  IF isWinningMove(board, cellIndex, "O")
             THEN [score |-> WinScore, features |-> shown,
                   strategy |-> "WINNING MOVE!"]
             ELSE IF isWinningMove(board, cellIndex, "X")
             THEN [score |-> BlockScore, features |-> shown,
                   strategy |-> "BLOCK WIN!"]
             ELSE [score |-> ladderScore(board, cellIndex, features),
                   features |-> shown,
                   strategy |-> strategyTag(board, cellIndex)]

----------------------------------------------------------------------------
(* Move selection.                                                          *)

EmptyCells(board) == {c \in Cells : board[c] = Null}

\* The entry pushed to moveAnalysis for an empty cell.
analysisEntry(board, cellIndex) ==
    LET m == scoreMove(board, cellIndex)
    IN  [cellIndex |-> cellIndex, score |-> m.score,
         entropy |-> m.features.entropy, purity |-> m.features.purity,
         strategy |-> m.strategy]

\* moveAnalysis after the loop cellIndex = from..8: one entry per empty
\* cell, in ascending cell order.
RECURSIVE analyseFrom(_, _)
analyseFrom(board, from) ==
    IF from > 8 THEN << >>
    ELSE IF board[from] = Null
         THEN << analysisEntry(board, from) >> \o analyseFrom(board, from + 1)
         ELSE analyseFrom(board, from + 1)

\* Variant: the entry goes before the entries of equal score.
RECURSIVE insertByScoreUnstable(_, _)
insertByScoreUnstable(e, sorted) ==
    IF sorted = << >> THEN << e >>
    ELSE IF Head(sorted).score > e.score
         THEN << Head(sorted) >> \o insertByScoreUnstable(e, Tail(sorted))
         ELSE << e >> \o sorted

\* Insert entry e into a list sorted by descending score, after every entry
\* whose score is not smaller (so entries of equal score keep their order).
RECURSIVE insertByScore(_, _)
insertByScore(e, sorted) ==
    IF sorted = << >> THEN << e >>
    ELSE IF Head(sorted).score >= e.score
         THEN << Head(sorted) >> \o insertByScore(e, Tail(sorted))
         ELSE << e >> \o sorted

\* Variant: the comparator reversed, (a, b) => a.score - b.score.
RECURSIVE insertByScoreAscending(_, _)
insertByScoreAscending(e, sorted) ==
    IF sorted = << >> THEN << e >>
    ELSE IF Head(sorted).score <= e.score
         THEN << Head(sorted) >> \o insertByScoreAscending(e, Tail(sorted))
         ELSE << e >> \o sorted

RECURSIVE sortByScoreAscending(_)
sortByScoreAscending(list) ==
    IF list = << >> THEN << >>
    ELSE insertByScoreAscending(list[Len(list)],
             sortByScoreAscending(SubSeq(list, 1, Len(list) - 1)))

\* moveAnalysis.sort((a, b) => b.score - a.score): a stable sort, descending.
RECURSIVE sortByScore(_)
sortByScore(list) ==
    IF list = << >> THEN << >>
    ELSE insertByScore(list[Len(list)],
                       sortByScore(SubSeq(list, 1, Len(list) - 1)))

\* Variant: chosenMove read with optional chaining, so that an empty
\* moveAnalysis yields a result without a chosen cell instead of a TypeError.
simulateQuantumMoveGuarded(board) ==
    LET moveAnalysis == sortByScore(analyseFrom(board, 0))
    IN  IF moveAnalysis = << >>
        THEN [outcome |-> "returned", chosenCell |-> Null,
              moveAnalysis |-> moveAnalysis, symbol |-> "O"]
        ELSE [outcome |-> "returned",
              chosenCell |-> moveAnalysis[1].cellIndex,
              moveAnalysis |-> moveAnalysis, symbol |-> "O"]

\* Variant: chosenMove read from moveAnalysis before the sort.
simulateQuantumMoveUnsorted(board) ==
    LET unsorted == analyseFrom(board, 0)
        moveAnalysis == sortByScore(unsorted)
    IN  IF moveAnalysis = << >>
        THEN [outcome |-> "TypeError"]
        ELSE LET chosenMove == unsorted[1]
                 finalFeatures == extractQuantumFeatures(chosenMove.cellIndex)
             IN  [outcome |-> "returned",
                  chosenCell |-> chosenMove.cellIndex,
                  moveAnalysis |-> moveAnalysis,
                  symbol |-> "O",
                  rawQuantumResult |->
                      [measured |-> "Strategic analysis complete",
                       classicalRegister |-> chosenMove.cellIndex,
                       entropy |-> finalFeatures.entropy,
                       purity |-> finalFeatures.purity]]

\* The value simulateQuantumMove returns, or the TypeError raised when
\* moveAnalysis is empty and chosenMove.cellIndex is read from undefined.
simulateQuantumMove(board) ==
    LET moveAnalysis == sortByScore(analyseFrom(board, 0))
    IN  IF moveAnalysis = << >>
        THEN [outcome |-> "TypeError"]
        ELSE LET chosenMove == moveAnalysis[1]
                 finalFeatures == extractQuantumFeatures(chosenMove.cellIndex)
             IN  [outcome |-> "returned",
                  chosenCell |-> chosenMove.cellIndex,
                  moveAnalysis |-> moveAnalysis,
                  symbol |-> "O",
                  rawQuantumResult |->
                      [measured |-> "Strategic analysis complete",
                       classicalRegister |-> chosenMove.cellIndex,
                       entropy |-> finalFeatures.entropy,
                       purity |-> finalFeatures.purity]]

----------------------------------------------------------------------------
(* One call of the engine: the caller supplies any board, the library any   *)
(* outcome per candidate cell.                                              *)

NoResult == [outcome |-> "none"]

EmptyBoard == [c \in Cells |-> Null]

HighSets(board) ==
    {H \in SUBSET EmptyCells(board) : Cardinality(H) <= MaxHighCells}

\* The client before its first click.
ClientIdle ==
    /\ gameBoard = EmptyBoard
    /\ moveCount = 0
    /\ isProcessing = FALSE
    /\ pending = << >>
    /\ timers = 0
    /\ clicks = 0

\* Variant: finalBoard is the caller's array itself instead of a copy, so
\* the chosen cell is written into it.
callerBoardAliased(board) ==
    LET r == simulateQuantumMove(board)
    IN  IF r.outcome = "returned"
        THEN [board EXCEPT ![r.chosenCell] = "O"]
        ELSE board

\* The caller's array after a call.  Every assignment of the engine goes to
\* a copy made with [...board] (testBoard in isWinningMove, createsFork and
\* scoreMove, finalBoard in simulateQuantumMove): no cell of the caller's
\* array is assigned.
callerBoardAfter(board) == board

Init ==
    /\ boardState \in Boards
    /\ \E H \in HighSets(boardState) :
          circuitOut = [c \in Cells |-> IF c \in H THEN "high" ELSE "low"]
    /\ pc = "called"
    /\ result = NoResult
    /\ ClientIdle

\* The call runs to its end: it returns a result, or throws.
Call ==
    /\ pc = "called"
    /\ LET r == simulateQuantumMove(boardState)
       IN  /\ result' = r
           /\ pc' = IF r.outcome = "returned" THEN "returned" ELSE "thrown"
    /\ boardState' = callerBoardAfter(boardState)
    /\ UNCHANGED <<circuitOut, clientVars>>

Next == Call

Spec == Init /\ [][Next]_vars

\* The same call with the library's outcome fixed to "low": the inputs of
\* the helpers that read the board alone.
BoardInit ==
    /\ boardState \in Boards
    /\ circuitOut = [c \in Cells |-> "low"]
    /\ pc = "called"
    /\ result = NoResult
    /\ ClientIdle

BoardSpec == BoardInit /\ [][Next]_vars

\* The same call with one outcome of the library for all cells: every
\* combination of a board, a cell and the outcome for that cell, which is
\* all that the score of one cell depends on.
UniformInit ==
    /\ boardState \in Boards
    /\ \E o \in Outcomes : circuitOut = [c \in Cells |-> o]
    /\ pc = "called"
    /\ result = NoResult
    /\ ClientIdle

UniformSpec == UniformInit /\ [][Next]_vars

----------------------------------------------------------------------------
(* The client session: clicks, replies of POST /api/move, failed requests   *)
(* and reset timers, in any order.  A click handler runs from the click to  *)
(* its first await, a continuation from the resolved (or rejected) fetch to *)
(* the end of makeMove, a timer callback from alert to the end of           *)
(* resetGame; each is one step.  The pointerEvents style of a cell is       *)
(* "none" exactly while gameBoard holds a mark there (both are always set   *)
(* together), so it disables no click that makeMove would not ignore.       *)

\* checkWinner on a board: the mark of the first complete pattern, or null.
checkWinner(board) ==
    LET hit == {i \in 1..Len(winPatterns) :
                  /\ board[winPatterns[i][1]] # Null
                  /\ board[winPatterns[i][1]] = board[winPatterns[i][2]]
                  /\ board[winPatterns[i][1]] = board[winPatterns[i][3]]}
    IN  IF hit = {} THEN Null
        ELSE LET first == CHOOSE i \in hit : \A j \in hit : i <= j
             IN  board[winPatterns[first][1]]

\* gameBoard.every(cell => cell !== null)
boardFull(board) == \A c \in Cells : board[c] # Null

\* The sequence without its k-th element.
removeAt(seq, k) == SubSeq(seq, 1, k - 1) \o SubSeq(seq, k + 1, Len(seq))

SessionInit ==
    /\ boardState = EmptyBoard
    /\ circuitOut = [c \in Cells |-> "low"]
    /\ pc = "idle"
    /\ result = NoResult
    /\ ClientIdle

\* makeMove(index) up to its first await, for a click that is accepted.
\* An invocation that awaits its fetch keeps index, the board it sent and
\* (history, for the properties) moveCount as it was before the click.
Click(index) ==
    /\ gameBoard[index] = Null
    /\ ~isProcessing
    /\ clicks < MaxClicks
    /\ clicks' = clicks + 1
    /\ LET placed == [gameBoard EXCEPT ![index] = "X"]
       IN  /\ gameBoard' = placed
           /\ moveCount' = moveCount + 1
           /\ IF checkWinner(placed) # Null \/ boardFull(placed)
              THEN /\ timers < MaxTimers
                   /\ timers' = timers + 1
                   /\ UNCHANGED <<isProcessing, pending>>
              ELSE /\ Len(pending) < MaxPending
                   /\ isProcessing' = TRUE
                   /\ pending' = Append(pending,
                                    [index |-> index, boardState |-> placed,
                                     countBefore |-> moveCount])
                   /\ UNCHANGED timers
    /\ UNCHANGED engineVars

\* makeMove(index) for a click on an occupied cell or during the AI's turn:
\* it returns at once.
ClickIgnored(index) ==
    /\ gameBoard[index] # Null \/ isProcessing
    /\ UNCHANGED vars

\* The reply of the server to a request: app.post('/api/move') calls
\* simulateQuantumMove on the board sent and answers with its result.  The
\* server keeps nothing between requests, so the reply is a function of the
\* board sent (and of the library's outcome, "low" throughout a session).
serverReply(sent) == simulateQuantumMove(sent)

\* The server answers the k-th awaiting invocation and makeMove continues
\* after its awaits.  An engine error yields a reply that is no JSON, and
\* the continuation is the catch block.
ReplyOk(k) ==
    /\ k \in 1..Len(pending)
    /\ UNCHANGED <<engineVars, clicks>>
    /\ pending' = removeAt(pending, k)
    /\ IF serverReply(pending[k].boardState).outcome = "returned"
       THEN LET data == serverReply(pending[k].boardState)
                placed == [gameBoard EXCEPT ![data.chosenCell] = "O"]
            IN  /\ gameBoard' = placed
                /\ moveCount' = moveCount + 1
                /\ IF checkWinner(placed) # Null \/ boardFull(placed)
                   THEN /\ timers < MaxTimers
                        /\ timers' = timers + 1
                        /\ UNCHANGED isProcessing
                   ELSE /\ isProcessing' = FALSE
                        /\ UNCHANGED timers
       ELSE /\ gameBoard' = [gameBoard EXCEPT ![pending[k].index] = Null]
            /\ moveCount' = moveCount - 1
            /\ isProcessing' = FALSE
            /\ UNCHANGED timers

\* The fetch of the k-th awaiting invocation fails (network, parse or server
\* error): the catch block, then the end of makeMove.
ReplyFail(k) ==
    /\ k \in 1..Len(pending)
    /\ gameBoard' = [gameBoard EXCEPT ![pending[k].index] = Null]
    /\ moveCount' = moveCount - 1
    /\ isProcessing' = FALSE
    /\ pending' = removeAt(pending, k)
    /\ UNCHANGED <<timers, clicks, engineVars>>

\* Variant: resetGame without isProcessing = false.
ResetKeepsLock ==
    /\ timers > 0
    /\ timers' = timers - 1
    /\ gameBoard' = EmptyBoard
    /\ moveCount' = 0
    /\ UNCHANGED <<isProcessing, pending, clicks, engineVars>>

\* A timer callback runs: alert, then resetGame.
Reset ==
    /\ timers > 0
    /\ timers' = timers - 1
    /\ gameBoard' = EmptyBoard
    /\ moveCount' = 0
    /\ isProcessing' = FALSE
    /\ UNCHANGED <<pending, clicks, engineVars>>

SessionNext ==
    \/ \E index \in Cells : Click(index)
    \/ \E index \in Cells : ClickIgnored(index)
    \/ \E k \in 1..MaxPending : ReplyOk(k)
    \/ \E k \in 1..MaxPending : ReplyFail(k)
    \/ Reset

SessionSpec == SessionInit /\ [][SessionNext]_vars

\* One game played to its end: the user clicks empty cells, every request
\* is answered by the engine, and nothing more happens once a terminal move
\* has scheduled the reset.
GameClick(index) == timers = 0 /\ Click(index)

GameReply(k) == timers = 0 /\ ReplyOk(k)

GameNext ==
    \/ \E index \in Cells : GameClick(index)
    \/ \E k \in 1..MaxPending : GameReply(k)

GameSpec == SessionInit /\ [][GameNext]_vars

\* The session in which every request succeeds, under the scheduling the
\* browser guarantees and the user supplies: a scheduled timer callback
\* eventually runs, an awaited fetch eventually resolves, and the user
\* eventually clicks an empty cell whenever a click would be accepted.
LiveNext ==
    \/ \E index \in Cells : Click(index)
    \/ \E index \in Cells : ClickIgnored(index)
    \/ \E k \in 1..MaxPending : ReplyOk(k)
    \/ Reset

\* Some awaiting invocation can continue: ENABLED of the reply step, written
\* out (the step is possible for every awaiting invocation, except that a
\* terminal reply waits while MaxTimers timers are pending).
ReplyEnabled ==
    \E k \in 1..Len(pending) :
        LET data == serverReply(pending[k].boardState)
        IN  (/\ data.outcome = "returned"
             /\ checkWinner([gameBoard EXCEPT ![data.chosenCell] = "O"]) # Null
                  \/ boardFull([gameBoard EXCEPT ![data.chosenCell] = "O"]))
              => timers < MaxTimers

\* Weak fairness of the reply step: WF_vars(\E k : ReplyOk(k)) with its
\* ENABLED written as ReplyEnabled.
FairReply ==
    \/ []<>~ReplyEnabled
    \/ []<><<\E k \in 1..MaxPending : ReplyOk(k)>>_vars

LiveSpec ==
    /\ SessionInit
    /\ [][LiveNext]_vars
    /\ WF_vars(\E index \in Cells : Click(index))
    /\ FairReply
    /\ WF_vars(Reset)

----------------------------------------------------------------------------
(* Vocabulary of the properties.                                            *)

Returned == pc = "returned"

BoardOf(seq) == [c \in Cells |-> seq[c + 1]]

\* O at 0,1; X at 3,4.
ScenarioB ==
    BoardOf(<<"O", "O", Null, "X", "X", Null, Null, Null, Null>>)

\* X at 0,1; O at 4.
ScenarioC ==
    BoardOf(<<"X", "X", Null, Null, "O", Null, Null, Null, Null>>)

\* Only X at the center.
ScenarioD ==
    BoardOf(<<Null, Null, Null, Null, "X", Null, Null, Null, Null>>)

Corners == {0, 2, 6, 8}
Edges == {1, 3, 5, 7}

\* The score the returned analysis gives to cell c.
ScoreIn(analysis, c) ==
    LET k == CHOOSE k \in 1..Len(analysis) : analysis[k].cellIndex = c
    IN  analysis[k].score

\* The tag the returned analysis gives to cell c.
TagIn(analysis, c) ==
    LET k == CHOOSE k \in 1..Len(analysis) : analysis[k].cellIndex = c
    IN  analysis[k].strategy

\* No empty cell is an immediate win, a block, a fork or a block of a fork.
NoTactics(board) ==
    \A c \in EmptyCells(board) :
        /\ ~isWinningMove(board, c, "O")
        /\ ~isWinningMove(board, c, "X")
        /\ ~createsFork(board, c, "O")
        /\ ~createsFork(board, c, "X")

\* The highest tier of the ladder that applies to an empty cell, as a rank:
\* winning_move 8 > block_win 7 > fork 6 > block_fork 5 > center 4 >
\* opposite_corner 3 > corner 2 > edge 1.
TopTier(board, c) ==
    IF isWinningMove(board, c, "O") THEN 8
    ELSE IF isWinningMove(board, c, "X") THEN 7
    ELSE IF createsFork(board, c, "O") THEN 6
    ELSE IF createsFork(board, c, "X") THEN 5
    ELSE IF c = 4 THEN 4
    ELSE IF \/ (c = 0 /\ board[8] = "X") \/ (c = 8 /\ board[0] = "X")
            \/ (c = 2 /\ board[6] = "X") \/ (c = 6 /\ board[2] = "X") THEN 3
    ELSE IF c \in Corners THEN 2
    ELSE 1

\* The tag of a tier of the ladder below the win and block tiers.
TierTag(rank) ==
    CASE rank = 6 -> "fork"
      [] rank = 5 -> "block_fork"
      [] rank = 4 -> "center"
      [] rank = 3 -> "opposite_corner"
      [] rank = 2 -> "corner"
      [] OTHER -> "edge"

----------------------------------------------------------------------------
(* Properties.                                                              *)

\* C1: whenever some empty cell completes a line for O, the chosen cell is
\* one at which O wins immediately (also when X has a winning cell too); on
\* the board O,O,_,X,X,_,_,_,_ the chosen cell is 2.
C1_WinIsChosen ==
    Returned =>
        /\ (findAllWinningMoves(boardState, "O") # {}
              => isWinningMove(boardState, result.chosenCell, "O"))
        /\ (boardState = ScenarioB => result.chosenCell = 2)

\* A call on scenario B, where X could win at 5 as well, has returned cell 2.
C1_Witness ==
    /\ Returned
    /\ boardState = ScenarioB
    /\ isWinningMove(boardState, 5, "X")
    /\ result.chosenCell = 2

\* C2: whenever O has no immediate winning cell and X has one, the chosen
\* cell is one at which X would win immediately; on the board
\* X,X,_,_,O,_,_,_,_ the chosen cell is 2.
C2_BlockIsChosen ==
    Returned =>
        /\ ((/\ findAllWinningMoves(boardState, "O") = {}
             /\ findAllWinningMoves(boardState, "X") # {})
              => isWinningMove(boardState, result.chosenCell, "X"))
        /\ (boardState = ScenarioC => result.chosenCell = 2)

\* A call has returned a cell that blocks X on a board where O cannot win
\* and another empty cell, given the high feature outcome, forks for O.
C2_Witness ==
    /\ Returned
    /\ findAllWinningMoves(boardState, "O") = {}
    /\ \E c \in EmptyCells(boardState) :
          /\ createsFork(boardState, c, "O")
          /\ ~isWinningMove(boardState, c, "X")
          /\ circuitOut[c] = "high"
    /\ isWinningMove(boardState, result.chosenCell, "X")

\* C3: tier priority is strictly lexicographic: of two empty cells, the one
\* whose highest applicable tier is higher has the strictly greater score.
C3_TiersLexicographic ==
    Returned =>
        \A a, b \in EmptyCells(boardState) :
            TopTier(boardState, a) > TopTier(boardState, b)
              => ScoreIn(result.moveAnalysis, a) > ScoreIn(result.moveAnalysis, b)

\* C4: below the win and block tiers, the returned tag of a cell is that of
\* the first (highest) tier of the ladder that applies to it.
C4_FirstTierTag ==
    Returned =>
        \A c \in EmptyCells(boardState) :
            TopTier(boardState, c) <= 6
              => TagIn(result.moveAnalysis, c) = TierTag(TopTier(boardState, c))

\* C5: the chosen cell is an index in 0..8 that is empty on the input board,
\* every entry of moveAnalysis is an empty cell, and scoreMove gives every
\* occupied cell negative infinity and the tag 'invalid'.
C5_ChosenCellLegal ==
    /\ \A c \in Cells \ EmptyCells(boardState) :
          /\ scoreMove(boardState, c).score = NegInfinity
          /\ scoreMove(boardState, c).strategy = "invalid"
    /\ Returned =>
          /\ result.chosenCell \in Cells
          /\ boardState[result.chosenCell] = Null
          /\ \A k \in 1..Len(result.moveAnalysis) :
                /\ boardState[result.moveAnalysis[k].cellIndex] = Null
                /\ result.moveAnalysis[k].strategy # "invalid"
                /\ result.moveAnalysis[k].score > NegInfinity

\* A call on a board with occupied and empty cells has returned.
C5_Witness ==
    /\ Returned
    /\ Cardinality(EmptyCells(boardState)) = 2
    /\ boardState[0] # Null
    /\ result.chosenCell \in EmptyCells(boardState)

\* C6: a call on a board with no empty cell ends in an error and returns no
\* chosen cell.
C6_FullBoardFails ==
    (pc # "called" /\ EmptyCells(boardState) = {}) =>
        /\ pc = "thrown"
        /\ result.outcome = "TypeError"
        /\ "chosenCell" \notin DOMAIN result

\* A call on a full board has ended.
C6_Witness ==
    /\ pc = "thrown"
    /\ EmptyCells(boardState) = {}

\* C8: when the center is empty and no empty cell is a win, a block, a fork
\* or a block of a fork, the chosen cell is the center.
C8_CenterPreferred ==
    (Returned /\ boardState[4] = Null /\ NoTactics(boardState))
        => result.chosenCell = 4

\* C9: on the empty board the chosen cell is the center.
C9_EmptyBoardCenter ==
    (Returned /\ boardState = EmptyBoard) => result.chosenCell = 4

\* A call on the empty board, with a corner given the high feature outcome,
\* has returned the center.
C9_Witness ==
    /\ Returned
    /\ boardState = EmptyBoard
    /\ circuitOut[0] = "high"
    /\ result.chosenCell = 4

\* C10: when the center is occupied, some corner is empty and no empty cell
\* is a win, a block, a fork or a block of a fork, the chosen cell is a
\* corner; so it is on the board whose only mark is X at the center.
C10_CornerOverEdge ==
    Returned =>
        /\ ((/\ boardState[4] # Null
             /\ Corners \cap EmptyCells(boardState) # {}
             /\ NoTactics(boardState))
              => result.chosenCell \in Corners)
        /\ (boardState = ScenarioD => result.chosenCell \in Corners)

\* A call on the board with only X at the center, with an edge given the
\* high feature outcome, has returned a corner.
C10_Witness ==
    /\ Returned
    /\ boardState = ScenarioD
    /\ circuitOut[1] = "high"
    /\ result.chosenCell \in Corners

\* The 8 lines, as sets of cells: three rows, three columns, two diagonals.
Lines ==
    {{3 * r, 3 * r + 1, 3 * r + 2} : r \in 0..2}
    \cup {{k, k + 3, k + 6} : k \in 0..2}
    \cup {{0, 4, 8}, {2, 4, 6}}

Other(symbol) == IF symbol = "X" THEN "O" ELSE "X"

\* The board with every X and O exchanged.
Relabel(board) ==
    [c \in Cells |-> IF board[c] = Null THEN Null ELSE Other(board[c])]

\* The score of an empty cell without the feature terms.
BaseScore(board, c) ==
    IF isWinningMove(board, c, "O") THEN WinScore
    ELSE IF isWinningMove(board, c, "X") THEN BlockScore
    ELSE (IF createsFork(board, c, "O") THEN ForkBonus ELSE 0)
         + (IF createsFork(board, c, "X") THEN BlockForkBonus ELSE 0)
         + (IF c = 4 THEN CenterBonus ELSE 0)
         + (IF \/ (c = 0 /\ board[8] = "X") \/ (c = 8 /\ board[0] = "X")
               \/ (c = 2 /\ board[6] = "X") \/ (c = 6 /\ board[2] = "X")
            THEN OppositeCornerBonus ELSE 0)
         + (IF c \in Corners THEN CornerBonus ELSE 0)
         + (IF c \in Edges THEN EdgeBonus ELSE 0)

\* C11: the feature contribution only breaks ties: of two empty cells, the
\* one with the greater score without the feature terms has the greater
\* full score, whatever the feature outcomes.
C11_FeaturesOnlyBreakTies ==
    Returned =>
        LET base == [c \in EmptyCells(boardState) |-> BaseScore(boardState, c)]
            full == [c \in EmptyCells(boardState) |->
                        ScoreIn(result.moveAnalysis, c)]
        IN  \A a, b \in EmptyCells(boardState) :
                base[a] > base[b] => full[a] > full[b]

\* A call has returned on a board where two ladder cells differ in their
\* score without features, the smaller one given the high feature outcome.
C11_Witness ==
    /\ Returned
    /\ \E a, b \in EmptyCells(boardState) :
          /\ BaseScore(boardState, a) < BlockScore
          /\ BaseScore(boardState, a) > BaseScore(boardState, b)
          /\ circuitOut[a] = "low"
          /\ circuitOut[b] = "high"
          /\ ScoreIn(result.moveAnalysis, b) > BaseScore(boardState, b)

\* C12: moveAnalysis holds exactly the empty cells of the input board, each
\* once, by non-increasing score, and entries of equal score in ascending
\* cell order.
C12_AnalysisSortedStable ==
    Returned =>
        LET ma == result.moveAnalysis
        IN  /\ {ma[k].cellIndex : k \in 1..Len(ma)} = EmptyCells(boardState)
            /\ Len(ma) = Cardinality(EmptyCells(boardState))
            /\ \A j, k \in 1..Len(ma) :
                  j < k =>
                    /\ ma[j].score >= ma[k].score
                    /\ (ma[j].score = ma[k].score
                          => ma[j].cellIndex < ma[k].cellIndex)

\* A call has returned an analysis in which two entries have equal score
\* and two have different scores.
C12_Witness ==
    /\ Returned
    /\ \E j, k \in 1..Len(result.moveAnalysis) :
          /\ j < k
          /\ result.moveAnalysis[j].score = result.moveAnalysis[k].score
    /\ \E j, k \in 1..Len(result.moveAnalysis) :
          result.moveAnalysis[j].score > result.moveAnalysis[k].score

\* C13: isWinningMove is true exactly for an empty cell such that, with the
\* symbol placed there, some line holds the symbol three times (false for
\* an occupied cell); findAllWinningMoves is exactly the set of those cells.
C13_WinningMoveExact ==
    \A symbol \in Marks :
        /\ \A c \in Cells :
              isWinningMove(boardState, c, symbol)
                <=> /\ boardState[c] = Null
                    /\ \E L \in Lines :
                          \A q \in L : q = c \/ boardState[q] = symbol
        /\ findAllWinningMoves(boardState, symbol)
             = {c \in Cells : isWinningMove(boardState, c, symbol)}

\* The board of the call has a winning cell for X on the second diagonal
\* and an occupied cell that would complete a line were it empty.
C13_Witness ==
    /\ boardState[2] = "X" /\ boardState[4] = "X" /\ boardState[6] = Null
    /\ isWinningMove(boardState, 6, "X")
    /\ boardState[0] = "O" /\ boardState[1] = "O" /\ boardState[3] = "O"
    /\ ~isWinningMove(boardState, 0, "O")
    /\ pc # "called"

\* C14: isWinningMove gives the same answer when every X and O of the board
\* and the queried symbol are exchanged.
C14_WinningMoveRelabel ==
    \A c \in Cells, symbol \in Marks :
        isWinningMove(Relabel(boardState), c, Other(symbol))
          = isWinningMove(boardState, c, symbol)

\* The board of the call has a cell that wins for X and not for O.
C14_Witness ==
    /\ pc # "called"
    /\ \E c \in Cells :
          /\ isWinningMove(boardState, c, "X")
          /\ ~isWinningMove(boardState, c, "O")
          /\ isWinningMove(Relabel(boardState), c, "O")

\* C15: createsFork is true exactly when, with the symbol placed at the
\* cell, at least 2 of the 8 lines hold the symbol exactly twice and are
\* empty exactly once.
C15_ForkExact ==
    \A c \in Cells, symbol \in Marks :
        LET placed == [boardState EXCEPT ![c] = symbol]
            threat(L) ==
                /\ Cardinality({q \in L : placed[q] = symbol}) = 2
                /\ Cardinality({q \in L : placed[q] = Null}) = 1
        IN  createsFork(boardState, c, symbol)
              <=> Cardinality({L \in Lines : threat(L)}) >= 2

\* The board of the call has a cell that creates exactly one threat and a
\* cell that creates a fork.
C15_Witness ==
    /\ pc # "called"
    /\ \E c \in EmptyCells(boardState) :
          threatsAfter(boardState, c, "O") = 1
    /\ \E c \in EmptyCells(boardState) :
          createsFork(boardState, c, "O")

LadderTags ==
    {"fork", "block_fork", "center", "opposite_corner", "corner", "edge",
     "quantum"}

\* C21 (as claimed): every entry of moveAnalysis has a tag among winning_move,
\* block_win, fork, block_fork, center, opposite_corner, corner, edge and
\* quantum; a cell that wins immediately is tagged winning_move and a cell
\* that (not winning) blocks an immediate X win is tagged block_win.
C21_TagsAsClaimed ==
    Returned =>
        \A k \in 1..Len(result.moveAnalysis) :
            LET e == result.moveAnalysis[k]
            IN  /\ e.strategy \in LadderTags \cup {"winning_move", "block_win"}
                /\ (isWinningMove(boardState, e.cellIndex, "O")
                      => e.strategy = "winning_move")
                /\ ((/\ ~isWinningMove(boardState, e.cellIndex, "O")
                      /\ isWinningMove(boardState, e.cellIndex, "X"))
                      => e.strategy = "block_win")

\* C21 (amended): every entry of moveAnalysis has a tag among 'WINNING MOVE!',
\* 'BLOCK WIN!', fork, block_fork, center, opposite_corner, corner, edge and
\* quantum; a cell that wins immediately is tagged 'WINNING MOVE!' and a cell
\* that (not winning) blocks an immediate X win is tagged 'BLOCK WIN!'.
C21_TagsOfSource ==
    Returned =>
        \A k \in 1..Len(result.moveAnalysis) :
            LET e == result.moveAnalysis[k]
            IN  /\ e.strategy \in LadderTags \cup {"WINNING MOVE!", "BLOCK WIN!"}
                /\ (isWinningMove(boardState, e.cellIndex, "O")
                      => e.strategy = "WINNING MOVE!")
                /\ ((/\ ~isWinningMove(boardState, e.cellIndex, "O")
                      /\ isWinningMove(boardState, e.cellIndex, "X"))
                      => e.strategy = "BLOCK WIN!")

\* A call has returned an analysis with a cell that wins for both players
\* tagged 'WINNING MOVE!', a cell tagged 'BLOCK WIN!' and a ladder cell.
C21_Witness ==
    /\ Returned
    /\ \E c \in EmptyCells(boardState) :
          /\ isWinningMove(boardState, c, "O")
          /\ isWinningMove(boardState, c, "X")
          /\ TagIn(result.moveAnalysis, c) = "WINNING MOVE!"
    /\ \E c \in EmptyCells(boardState) :
          TagIn(result.moveAnalysis, c) = "BLOCK WIN!"
    /\ \E c \in EmptyCells(boardState) :
          TagIn(result.moveAnalysis, c) \in LadderTags

\* C26: the win and block tiers are terminal in scoreMove: an empty cell at
\* which O wins immediately scores exactly 100000 (also when X would win
\* there too) and an empty cell at which only X would win immediately scores
\* exactly 90000, whatever forks, position and features the cell has.
C26_WinBlockTerminal ==
    \A c \in EmptyCells(boardState) :
        /\ (isWinningMove(boardState, c, "O")
              => scoreMove(boardState, c).score = 100000)
        /\ ((/\ ~isWinningMove(boardState, c, "O")
              /\ isWinningMove(boardState, c, "X"))
              => scoreMove(boardState, c).score = 90000)

\* A call has returned on a board with a corner, given the high feature
\* outcome, at which both players win and which scores 100000, and a cell,
\* given the high feature outcome, at which only X wins and which creates
\* a fork for O and scores 90000.
C26_Witness ==
    /\ Returned
    /\ \E c \in EmptyCells(boardState) \cap Corners :
          /\ isWinningMove(boardState, c, "O")
          /\ isWinningMove(boardState, c, "X")
          /\ circuitOut[c] = "high"
          /\ ScoreIn(result.moveAnalysis, c) = 100000
    /\ \E c \in EmptyCells(boardState) :
          /\ ~isWinningMove(boardState, c, "O")
          /\ isWinningMove(boardState, c, "X")
          /\ createsFork(boardState, c, "X")
          /\ ScoreIn(result.moveAnalysis, c) = 90000

\* The cell is a corner whose diagonally opposite corner holds X.
OppositeOfX(board, c) ==
    \/ (c = 0 /\ board[8] = "X") \/ (c = 8 /\ board[0] = "X")
    \/ (c = 2 /\ board[6] = "X") \/ (c = 6 /\ board[2] = "X")

\* C27: for an empty cell that is an immediate win for neither O nor X, the
\* score of scoreMove is the sum of 5000 if the cell creates a fork for O,
\* 4000 if it creates a fork for X, 3000 if it is cell 4, 2500 if it is a
\* corner whose opposite corner holds X, 2000 if it is a corner, 500 if it
\* is an edge, and the feature contribution; each bonus at most once.
C27_LadderIsCumulativeSum ==
    \A c \in EmptyCells(boardState) :
        (~isWinningMove(boardState, c, "O") /\ ~isWinningMove(boardState, c, "X"))
          => scoreMove(boardState, c).score
               = (IF createsFork(boardState, c, "O") THEN 5000 ELSE 0)
                 + (IF createsFork(boardState, c, "X") THEN 4000 ELSE 0)
                 + (IF c = 4 THEN 3000 ELSE 0)
                 + (IF OppositeOfX(boardState, c) THEN 2500 ELSE 0)
                 + (IF c \in Corners THEN 2000 ELSE 0)
                 + (IF c \in Edges THEN 500 ELSE 0)
                 + featureScore(extractQuantumFeatures(c), c)

\* A call has returned on a board with a corner that creates a fork for
\* both players, lies opposite an X and was given the high feature outcome:
\* four bonuses and the feature contribution add up.
C27_Witness ==
    /\ Returned
    /\ \E c \in EmptyCells(boardState) \cap Corners :
          /\ ~isWinningMove(boardState, c, "O")
          /\ ~isWinningMove(boardState, c, "X")
          /\ createsFork(boardState, c, "O")
          /\ createsFork(boardState, c, "X")
          /\ OppositeOfX(boardState, c)
          /\ circuitOut[c] = "high"
          /\ ScoreIn(result.moveAnalysis, c) = 5000 + 4000 + 2500 + 2000 + 140

\* C28: in every result, chosenCell is the cellIndex of the first entry of
\* moveAnalysis, that entry's score is the maximum of the scores scoreMove
\* gives to the empty cells, rawQuantumResult.classicalRegister is
\* chosenCell and symbol is 'O'.
C28_ChosenIsFirstAndBest ==
    Returned =>
        /\ result.chosenCell = result.moveAnalysis[1].cellIndex
        /\ \A c \in EmptyCells(boardState) :
              result.moveAnalysis[1].score >= scoreMove(boardState, c).score
        /\ result.moveAnalysis[1].score
             = scoreMove(boardState, result.chosenCell).score
        /\ result.rawQuantumResult.classicalRegister = result.chosenCell
        /\ result.symbol = "O"

\* A call has returned an analysis of several cells whose first entry is
\* not the lowest-numbered empty cell and scores more than another entry.
C28_Witness ==
    /\ Returned
    /\ Len(result.moveAnalysis) >= 3
    /\ \E c \in EmptyCells(boardState) : c < result.chosenCell
    /\ \E k \in 1..Len(result.moveAnalysis) :
          result.moveAnalysis[k].score < result.moveAnalysis[1].score

----------------------------------------------------------------------------
(* Properties of the client session.                                        *)

CountOf(board, symbol) == Cardinality({c \in Cells : board[c] = symbol})

\* C17: when the request of a turn fails, the client is back in the state
\* before the click: the board without the X just placed, moveCount as it
\* was, isProcessing false.
C17_FailureRestoresState ==
    [][\A k \in 1..MaxPending :
          ReplyFail(k) =>
            /\ gameBoard' = [pending[k].boardState
                               EXCEPT ![pending[k].index] = Null]
            /\ moveCount' = pending[k].countBefore
            /\ isProcessing' = FALSE]_vars

\* C18: gameBoard always holds as many X as O, or one more X than O.
C18_MarkBalance ==
    \/ CountOf(gameBoard, "X") = CountOf(gameBoard, "O")
    \/ CountOf(gameBoard, "X") = CountOf(gameBoard, "O") + 1

\* C19: every board sent to POST /api/move has an empty cell, no completed
\* line and exactly one more X than O.
C19_SentBoardsPlayable ==
    \A k \in 1..Len(pending) :
        /\ EmptyCells(pending[k].boardState) # {}
        /\ checkWinner(pending[k].boardState) = Null
        /\ CountOf(pending[k].boardState, "X")
             = CountOf(pending[k].boardState, "O") + 1

\* C20: no occupied cell is overwritten: a cell holding a mark keeps it, or
\* becomes empty in resetGame or in the rollback of a click on that cell
\* (which removes an X).
C20_NoOverwrite ==
    [][\A c \in Cells :
          gameBoard[c] # Null =>
            \/ gameBoard'[c] = gameBoard[c]
            \/ /\ gameBoard'[c] = Null
               /\ \/ Reset
                  \/ \E k \in 1..Len(pending) :
                        /\ ReplyFail(k)
                        /\ pending[k].index = c
                        /\ gameBoard[c] = "X"]_vars

\* C22: the per-turn lock serialises AI turns: at most one AI move request
\* is outstanding at any time, and while one is outstanding isProcessing is
\* true, so that every click is ignored and sends no further request.
C22_OneRequestOutstanding ==
    /\ Len(pending) <= 1
    /\ (pending # << >> => isProcessing)

\* The board has a completed line or no empty cell.
Terminal(board) == checkWinner(board) # Null \/ boardFull(board)

\* C23: once gameBoard has a completed line or is full, no mark is placed
\* on it and no AI request is sent until resetGame runs.
C23_NoMoveAfterTerminal ==
    [][Terminal(gameBoard) =>
          \/ Reset
          \/ /\ \A c \in Cells :
                    gameBoard'[c] = gameBoard[c] \/ gameBoard'[c] = Null
             /\ Len(pending') <= Len(pending)]_vars

Restored ==
    /\ gameBoard = EmptyBoard
    /\ moveCount = 0
    /\ isProcessing = FALSE

====
